---- MODULE Spec2Model ----
(***************************************************************************)
(* State-machine model of the virtual keyboard backend of wlx-overlay-s:   *)
(*   src/wayvr/src/overlays/keyboard/mod.rs        (backend, key events)   *)
(*   src/wayvr/src/overlays/keyboard/swipe_type.rs (clipboard, geometry)   *)
(*                                                                         *)
(* Strings that the code transforms (key labels, the swipe buffer, words)  *)
(* are sequences of one-character strings.  A KeyModifier bitmask is the   *)
(* set of the names of its bits: | is \cup, & is \cap, & ! is \ .          *)
(* Option<T> is a record [some, v].                                        *)
(***************************************************************************)
EXTENDS Integers, Sequences, FiniteSets, TLC

\* ------------------------------------------------------------------ bounds
MaxSwipeLen == 3
MaxProcs == 2
MaxResolve == 2
MaxTasks == 1

\* --------------------------------------------------------------- constants
SHIFT == {"SHIFT"}
CTRL == {"CTRL"}
ALT == {"ALT"}
SUPER == {"SUPER"}
META == {"META"}
NUM_LOCK == {"NUM_LOCK"}

AUTO_RELEASE_MODS == << SHIFT, CTRL, ALT, SUPER, META >>
SYSTEM_LAYOUT_ALIASES == << "mozc", "pinyin", "hangul", "sayura", "unikey" >>
PREDICT_TOP_N == 5

None == [some |-> FALSE, v |-> <<>>]
Some(x) == [some |-> TRUE, v |-> x]

RangeOf(s) == { s[i] : i \in 1..Len(s) }

\* ------------------------------------------------------------ the keyboard
\* The keys of the rendered layout: one KeyState per key, the same key set in
\* every panel.  Each carries a KeyButtonData variant, a cap type and a label.
LetterKeys == {"kH", "kE"}
PlainKeys == {"k1"}
KeyKeys == LetterKeys \cup PlainKeys
ModKeys == {"kShift", "kNum"}
MacroKeys == {"kMacro"}
ExecKeys == {"kExec", "kExecNoRel"}
Keys == KeyKeys \cup ModKeys \cup MacroKeys \cup ExecKeys

button_state(k) ==
    IF k \in KeyKeys THEN "Key"
    ELSE IF k \in ModKeys THEN "Modifier"
    ELSE IF k \in MacroKeys THEN "Macro"
    ELSE "Exec"

key_cap_type(k) == IF k \in LetterKeys THEN "Letter" ELSE "Symbol"

\* key_label.iter().next().unwrap(): the first label of the key
key_label(k) ==
    CASE k = "kH" -> <<"H">>
      [] k = "kE" -> <<"e">>
      [] k = "k1" -> <<"1">>
      [] OTHER -> <<"*">>

key_vk(k) ==
    CASE k = "kH" -> "VK_H"
      [] k = "kE" -> "VK_E"
      [] OTHER -> "VK_1"

key_modifier(k) == IF k = "kShift" THEN SHIFT ELSE NUM_LOCK

key_verbs(k) == << <<"VK_1", TRUE>>, <<"VK_1", FALSE>> >>

key_release_program(k) == IF k = "kExec" THEN Some(<<"R">>) ELSE None

MouseButtons == {"Left", "Right", "Middle"}

\* ------------------------------------------------------------ pure helpers
\* char::to_ascii_lowercase on the characters the key labels use
AsciiLowerChar(c) ==
    CASE c = "H" -> "h"
      [] c = "E" -> "e"
      [] OTHER -> c

to_ascii_lowercase(s) == [ i \in 1..Len(s) |-> AsciiLowerChar(s[i]) ]

alt_modifier_to_key(m) ==
    CASE m = "Shift" -> SHIFT
      [] m = "Ctrl" -> CTRL
      [] m = "Alt" -> ALT
      [] m = "Super" -> SUPER
      [] m = "Meta" -> META
      [] OTHER -> {}

\* events handed to the HID provider
KeyEv(vk, down) == [t |-> "key", vk |-> vk, down |-> down, m |-> {}]
ModEv(m) == [t |-> "mods", vk |-> "", down |-> FALSE, m |-> m]

\* --------------------------------------------------------- KeyboardState
\* create_keyboard's default_state for a configuration
DefaultState(alt, clock) ==
    [ modifiers |-> {},
      alt_modifier |-> alt_modifier_to_key(alt),
      processes |-> <<>>,
      clock_12h |-> clock,
      swipe_engine |-> FALSE,
      current_swipe_input |-> <<>>,
      is_swiping |-> FALSE,
      last_pressed_key_label |-> <<>>,
      last_swiped_word |-> None ]

\* a take that hands over the whole state as it is
take_result_keeps_all(self) == self

\* KeyboardState::take: the value returned
take_result(self) ==
    [ modifiers |-> self.modifiers,
      alt_modifier |-> self.alt_modifier,
      processes |-> self.processes,
      clock_12h |-> self.clock_12h,
      swipe_engine |-> FALSE,
      current_swipe_input |-> <<>>,
      is_swiping |-> FALSE,
      last_pressed_key_label |-> <<>>,
      last_swiped_word |-> None ]

\* KeyboardState::take: what is left in self (take_and_leave_default!)
take_left(self) == [self EXCEPT !.processes = <<>>]

\* the cell flags of the keys of a freshly built panel
FreshKeys ==
    [ pressed |-> [k \in KeyKeys |-> FALSE],
      sticky |-> [k \in ModKeys |-> FALSE] ]

\* ------------------------------------------------------------ handle_enter
\* a variant in which every entry starts a swipe
enter_is_swiping_always(k, kb) == TRUE

enter_is_swiping(k, kb) ==
    IF key_label(k) # kb.last_pressed_key_label THEN TRUE ELSE kb.is_swiping

handle_enter(k, kb) ==
    IF kb.swipe_engine /\ key_cap_type(k) = "Letter"
    THEN LET sw == enter_is_swiping(k, kb)
             buf == IF sw /\ button_state(k) = "Key"
                    THEN kb.current_swipe_input \o to_ascii_lowercase(key_label(k))
                    ELSE kb.current_swipe_input
         IN  [kb EXCEPT !.is_swiping = sw, !.current_swipe_input = buf]
    ELSE kb

\* ------------------------------------------------------------ handle_press
\* The result of a handler: the keyboard state, the key cells, the events
\* routed to the HID provider in order, the number of key clicks played, the
\* process table, the prediction calls made, the clipboard, whether the
\* handler panicked, and its return value.
Eff(kb, keyst, routed, clicks, procs, predict, clip, aborted, ret) ==
    [ kb |-> kb, keyst |-> keyst, routed |-> routed, clicks |-> clicks,
      procs |-> procs, predict |-> predict, clip |-> clip,
      aborted |-> aborted, ret |-> ret ]

\* a variant in which the click is not played
play_key_click_silent(clicks) == clicks

\* play_key_click: one more "key_click" sample is played
play_key_click(clicks) == clicks + 1

\* a variant in which no pointer button asserts a modifier
button_modifier_none(button, kb) == {}

button_modifier(button, kb) ==
    CASE button = "Right" -> SHIFT
      [] button = "Middle" -> kb.alt_modifier
      [] OTHER -> {}

\* a variant in which every touch-down marks the key sticky
press_sticky_always(modifiers, modifier) == TRUE

press_sticky(modifiers, modifier) == (modifiers \cap modifier) = {}

\* a variant in which nothing is reaped
reap_nothing(processes, procs) == processes

\* processes.retain_mut(|child| !matches!(child.try_wait(), Ok(Some(_))))
reap(processes, procs) == SelectSeq(processes, LAMBDA p : procs[p] # "exited")

\* Command::new(..).spawn(): Ok(child) appends the child, Err appends nothing
spawn(processes, procs, spawn_ok) ==
    IF spawn_ok
    THEN [processes |-> Append(processes, Len(procs) + 1), procs |-> Append(procs, "running")]
    ELSE [processes |-> processes, procs |-> procs]

press_swipe_path(k, kb) == kb.swipe_engine /\ key_cap_type(k) = "Letter"

press_Key(k, button, kb0, keyst, procs, clip) ==
    IF press_swipe_path(k, kb0)
    THEN Eff([kb0 EXCEPT !.last_pressed_key_label = key_label(k),
                         !.current_swipe_input = to_ascii_lowercase(key_label(k))],
             keyst, <<>>, 0, procs, <<>>, clip, FALSE, TRUE)
    ELSE LET mods == kb0.modifiers \cup button_modifier(button, kb0)
         IN  Eff([kb0 EXCEPT !.modifiers = mods],
                 [keyst EXCEPT !.pressed[k] = TRUE],
                 << ModEv(mods), KeyEv(key_vk(k), TRUE) >>,
                 play_key_click(0), procs, <<>>, clip, FALSE, TRUE)

press_Modifier(k, kb0, keyst, procs, clip) ==
    LET mods == kb0.modifiers \cup key_modifier(k)
    IN  Eff([kb0 EXCEPT !.modifiers = mods],
            [keyst EXCEPT !.sticky[k] = press_sticky(kb0.modifiers, key_modifier(k))],
            << ModEv(mods) >>, play_key_click(0), procs, <<>>, clip, FALSE, TRUE)

press_Macro(k, kb0, keyst, procs, clip) ==
    Eff(kb0, keyst,
        [ i \in 1..Len(key_verbs(k)) |-> KeyEv(key_verbs(k)[i][1], key_verbs(k)[i][2]) ],
        play_key_click(0), procs, <<>>, clip, FALSE, TRUE)

press_Exec(k, kb0, keyst, procs, clip, spawn_ok) ==
    LET sp == spawn(reap(kb0.processes, procs), procs, spawn_ok)
    IN  Eff([kb0 EXCEPT !.processes = sp.processes],
            keyst, <<>>, play_key_click(0), sp.procs, <<>>, clip, FALSE, TRUE)

handle_press(k, button, kb, keyst, procs, clip, spawn_ok) ==
    LET kb0 == [kb EXCEPT !.is_swiping = FALSE]
    IN  CASE button_state(k) = "Key" -> press_Key(k, button, kb0, keyst, procs, clip)
          [] button_state(k) = "Modifier" -> press_Modifier(k, kb0, keyst, procs, clip)
          [] button_state(k) = "Macro" -> press_Macro(k, kb0, keyst, procs, clip)
          [] OTHER -> press_Exec(k, kb0, keyst, procs, clip, spawn_ok)

\* ---------------------------------------------------------- handle_release
\* for m in &AUTO_RELEASE_MODS { if modifiers & m != 0 { modifiers &= !m } }
RECURSIVE auto_release_from(_, _)
auto_release_from(modifiers, i) ==
    IF i > Len(AUTO_RELEASE_MODS) THEN modifiers
    ELSE auto_release_from(
             IF (modifiers \cap AUTO_RELEASE_MODS[i]) # {}
             THEN modifiers \ AUTO_RELEASE_MODS[i] ELSE modifiers,
             i + 1)

auto_release(modifiers) == auto_release_from(modifiers, 1)

\* copy_text_to_primary_clipboard: std::env::var("WAYLAND_DISPLAY").unwrap()
\* panics when the variable is unset, set_text(..).unwrap() when the write
\* fails; otherwise the clipboard holds format!("{text} ")
copy_text_to_primary_clipboard(text, clip, display_set, set_text_ok) ==
    IF ~display_set \/ ~set_text_ok
    THEN [aborted |-> TRUE, clip |-> clip]
    ELSE [aborted |-> FALSE, clip |-> Some(text \o <<" ">>)]

\* engine.predict(path, context, top_n), with the candidates it answered
predict_call(kb, prediction) ==
    [ path |-> kb.current_swipe_input,
      context |-> kb.last_swiped_word,
      top_n |-> PREDICT_TOP_N,
      answer |-> prediction ]

\* a paste gesture that leaves SHIFT asserted
paste_events_keeps_shift(kb) ==
    << ModEv(SHIFT), KeyEv("Insert", TRUE), KeyEv("Insert", FALSE) >>

paste_events(kb) ==
    << ModEv(SHIFT), KeyEv("Insert", TRUE), KeyEv("Insert", FALSE), ModEv(kb.modifiers) >>

\* the swiping branch with a non-empty buffer; prediction.first().unwrap()
\* panics on an empty candidate list
release_swipe_commit(kb, keyst, procs, clip, prediction, display_set, set_text_ok) ==
    LET call == predict_call(kb, prediction)
        kb1 == [kb EXCEPT !.current_swipe_input = <<>>]
    IN  IF prediction = <<>>
        THEN Eff(kb1, keyst, <<>>, 0, procs, <<call>>, clip, TRUE, TRUE)
        ELSE LET best == prediction[1]
                 cp == copy_text_to_primary_clipboard(best, clip, display_set, set_text_ok)
             IN  IF cp.aborted
                 THEN Eff(kb1, keyst, <<>>, 0, procs, <<call>>, cp.clip, TRUE, TRUE)
                 ELSE Eff([kb1 EXCEPT !.last_swiped_word = Some(best)], keyst,
                          paste_events(kb1), 0, procs, <<call>>, cp.clip, FALSE, TRUE)

release_tap(k, kb, keyst, procs, clip) ==
    Eff(kb, [keyst EXCEPT !.pressed[k] = TRUE],
        << KeyEv(key_vk(k), TRUE), KeyEv(key_vk(k), FALSE) >>,
        play_key_click(0), procs, <<>>, clip, FALSE, TRUE)

release_plain(k, kb, keyst, procs, clip) ==
    LET mods == auto_release(kb.modifiers)
    IN  Eff([kb EXCEPT !.modifiers = mods],
            [keyst EXCEPT !.pressed[k] = FALSE],
            << KeyEv(key_vk(k), FALSE), ModEv(mods) >>,
            0, procs, <<>>, clip, FALSE, TRUE)

release_Key(k, kb, keyst, procs, clip, prediction, display_set, set_text_ok) ==
    IF kb.swipe_engine /\ key_cap_type(k) = "Letter"
    THEN IF kb.is_swiping
         THEN IF kb.current_swipe_input # <<>>
              THEN release_swipe_commit(kb, keyst, procs, clip, prediction,
                                        display_set, set_text_ok)
              ELSE Eff(kb, keyst, <<>>, 0, procs, <<>>, clip, FALSE, TRUE)
         ELSE release_tap(k, kb, keyst, procs, clip)
    ELSE release_plain(k, kb, keyst, procs, clip)

release_Modifier(k, kb, keyst, procs, clip) ==
    IF keyst.sticky[k]
    THEN Eff(kb, keyst, <<>>, 0, procs, <<>>, clip, FALSE, FALSE)
    ELSE LET mods == kb.modifiers \ key_modifier(k)
         IN  Eff([kb EXCEPT !.modifiers = mods], keyst,
                 << ModEv(mods) >>, 0, procs, <<>>, clip, FALSE, TRUE)

release_Exec(k, kb, keyst, procs, clip, spawn_ok) ==
    LET reaped == reap(kb.processes, procs)
        sp == IF key_release_program(k).some
              THEN spawn(reaped, procs, spawn_ok)
              ELSE [processes |-> reaped, procs |-> procs]
    IN  Eff([kb EXCEPT !.processes = sp.processes],
            keyst, <<>>, 0, sp.procs, <<>>, clip, FALSE, TRUE)

handle_release(k, kb, keyst, procs, clip, spawn_ok, prediction, display_set, set_text_ok) ==
    CASE button_state(k) = "Key" ->
            release_Key(k, kb, keyst, procs, clip, prediction, display_set, set_text_ok)
      [] button_state(k) = "Modifier" -> release_Modifier(k, kb, keyst, procs, clip)
      [] button_state(k) = "Exec" -> release_Exec(k, kb, keyst, procs, clip, spawn_ok)
      [] OTHER -> Eff(kb, keyst, <<>>, 0, procs, <<>>, clip, FALSE, TRUE)

\* ------------------------------------------------------------ keymaps
NoneStr == [some |-> FALSE, v |-> ""]
SomeStr(x) == [some |-> TRUE, v |-> x]

\* XkbKeymap: identity is layout + variant; get_name() is the layout name
Keymap(layout, variant, name) == [layout |-> layout, variant |-> variant, name |-> name]
NoKeymap == Keymap("", "", NoneStr)
Ok(km) == [ok |-> TRUE, km |-> km]
Err == [ok |-> FALSE, km |-> NoKeymap]

XkbLayouts == {"us", "de"}
XkbVariants == {"", "intl"}

\* XkbKeymap::from_layout_variant
from_layout_variant(layout, variant) ==
    IF layout \in XkbLayouts /\ variant \in XkbVariants
    THEN Ok(Keymap(layout, variant, SomeStr(layout)))
    ELSE Err

get_name(km) == km.name

\* what the system keymap queries can answer: a named keymap, a keymap
\* without a layout name, or an error
SystemKeymaps ==
    { Ok(Keymap(l, "", SomeStr(l))) : l \in XkbLayouts }
      \cup { Ok(Keymap("", "", NoneStr)), Err }

\* A scheme name is the sequence of its maximal hyphen-free runs and its
\* hyphens: "keyboard-us" is << "keyboard", "-", "us" >>.
\* re_fcitx = ^keyboard-([^-]+)(?:-([^-]+))?$
re_fcitx_captures(name) ==
    IF /\ Len(name) \in {3, 5}
       /\ name[1] = "keyboard"
       /\ name[2] = "-"
       /\ name[3] # "-"
       /\ Len(name) = 5 => (name[4] = "-" /\ name[5] # "-")
    THEN [some |-> TRUE, g1 |-> name[3], g2 |-> IF Len(name) = 5 THEN name[5] ELSE ""]
    ELSE [some |-> FALSE, g1 |-> "", g2 |-> ""]

is_system_layout_alias(name) ==
    \E i \in 1..Len(SYSTEM_LAYOUT_ALIASES) : name = << SYSTEM_LAYOUT_ALIASES[i] >>

\* the query of the other display protocol
get_system_keymap_other(wayland, sys_wl, sys_x11) ==
    IF wayland
    THEN [result |-> sys_x11, queries |-> << "get_keymap_x11" >>]
    ELSE [result |-> sys_wl, queries |-> << "get_keymap_wl" >>]

\* get_system_keymap: the query of the display protocol, and which one ran
get_system_keymap(wayland, sys_wl, sys_x11) ==
    IF wayland
    THEN [result |-> sys_wl, queries |-> << "get_keymap_wl" >>]
    ELSE [result |-> sys_x11, queries |-> << "get_keymap_x11" >>]

\* fcitx is the answer of DbusConnector::fcitx_keymap(): [ok, v]; sys_wl and
\* sys_x11 are what the two system queries answer when asked.  The value is
\* the keymap result and the external queries made, in order.
get_effective_keymap(wayland, fcitx, sys_wl, sys_x11) ==
    LET sys == get_system_keymap(wayland, sys_wl, sys_x11)
        viasys == [result |-> sys.result, queries |-> << "fcitx_keymap" >> \o sys.queries]
    IN  IF ~fcitx.ok THEN viasys
        ELSE LET captures == re_fcitx_captures(fcitx.v)
             IN  IF captures.some
                 THEN [result |-> from_layout_variant(captures.g1, captures.g2),
                       queries |-> << "fcitx_keymap" >>]
                 ELSE IF is_system_layout_alias(fcitx.v) THEN viasys
                 ELSE viasys

\* ------------------------------------------------------- the panel cache
unwrap_or_always_default(opt, d) == d
unwrap_or(opt, d) == IF opt.some THEN opt.v ELSE d

Panel(state, keymap_name) ==
    [ state |-> state, initialized |-> FALSE, keymap_name |-> keymap_name,
      keys |-> FreshKeys ]

\* an insert that hands out a key and stores nothing
slot_insert_discards(panels, panel) ==
    [ id |-> Cardinality(DOMAIN panels) + 1, panels |-> panels ]

\* SlotMap::insert: a key no panel ever had (no panel is ever removed)
slot_insert(panels, panel) ==
    LET id == Cardinality(DOMAIN panels) + 1
    IN  [ id |-> id,
          panels |-> [ i \in DOMAIN panels \cup {id} |->
                          IF i = id THEN panel ELSE panels[i] ] ]

map_insert_nothing(m, key, val) == m
map_insert(m, key, val) ==
    [ x \in DOMAIN m \cup {key} |-> IF x = key THEN val ELSE m[x] ]

\* keymap is an Option<&XkbKeymap>: [some, v].  clipboard_ok: Clipboard::new()
\* in take() succeeds (it is unwrapped); engine_ok: create_new_swipe_engine
\* succeeds; build_ok: create_keyboard_panel succeeds.
add_new_keymap(b, keymap, clipboard_ok, engine_ok, build_ok) ==
    IF ~clipboard_ok
    THEN [status |-> "abort", b |-> b, id |-> 0]
    ELSE LET state == [take_result(b.default_state) EXCEPT !.swipe_engine = engine_ok]
             b1 == [b EXCEPT !.default_state = take_left(b.default_state)]
         IN  IF ~build_ok
             THEN [status |-> "err", b |-> b1, id |-> 0]
             ELSE LET name == IF keymap.some THEN get_name(keymap.v) ELSE NoneStr
                      ins == slot_insert(b1.layout_panels, Panel(state, name))
                      ids == IF name.some
                             THEN map_insert(b1.layout_ids, name.v, ins.id)
                             ELSE b1.layout_ids
                  IN  [ status |-> "ok",
                        b |-> [b1 EXCEPT !.layout_panels = ins.panels, !.layout_ids = ids],
                        id |-> ins.id ]

internal_switch_keymap(b, new_key, engine_ok) ==
    LET from == b.layout_panels[b.active_layout].state
        state_from == [take_result(from) EXCEPT !.swipe_engine = engine_ok]
        left == [b.layout_panels EXCEPT ![b.active_layout].state = take_left(from)]
    IN  [b EXCEPT !.active_layout = new_key,
                  !.layout_panels = [left EXCEPT ![new_key].state = state_from]]

\* The value: status "ok" (with ret, the bool returned), "err" or "abort"; the
\* backend afterwards; the tasks enqueued; whether a panel was built.
SwitchResult(status, ret, b, enqueued, built) ==
    [status |-> status, ret |-> ret, b |-> b, enqueued |-> enqueued, built |-> built]

switch_keymap(b, keymap, clipboard_ok, engine_new_ok, build_ok, engine_ok) ==
    IF ~unwrap_or(b.wlx_layout.auto_labels, TRUE)
    THEN SwitchResult("ok", FALSE, b, 0, FALSE)
    ELSE IF ~get_name(keymap).some
    THEN SwitchResult("ok", FALSE, b, 0, FALSE)
    ELSE LET layout_name == get_name(keymap).v
         IN  IF layout_name \in DOMAIN b.layout_ids
             THEN LET new_key == b.layout_ids[layout_name]
                  IN  IF b.active_layout = new_key
                      THEN SwitchResult("ok", FALSE, b, 0, FALSE)
                      ELSE IF ~clipboard_ok
                      THEN SwitchResult("abort", FALSE, b, 0, FALSE)
                      ELSE SwitchResult("ok", TRUE,
                                        internal_switch_keymap(b, new_key, engine_ok),
                                        1, FALSE)
             ELSE LET added == add_new_keymap(b, Some(keymap), clipboard_ok,
                                              engine_new_ok, build_ok)
                  IN  IF added.status # "ok"
                      THEN SwitchResult(added.status, FALSE, added.b, 0, FALSE)
                      ELSE SwitchResult("ok", TRUE,
                                        internal_switch_keymap(added.b, added.id, engine_ok),
                                        1, TRUE)

\* ------------------------------------------------------------------ state
VARIABLES
    backend,         \* KeyboardBackend: layout_panels, layout_ids, active_layout,
                     \* default_state, wlx_layout, wayland
    KEYMAP_CHANGE,   \* the shared layout-change flag
    tasks,           \* KeyboardChanged tasks waiting in the host task queue
    procs,           \* status of every process spawned so far, by pid
    clipboard,       \* the text the clipboard holds, if any
    display_set,     \* whether WAYLAND_DISPLAY is set in the environment
    hid_modifiers,   \* the modifier state last routed to the HID provider
    routed,          \* the events the last handler routed, in order
    clicks,          \* the key clicks the last handler played
    predict_log,     \* the prediction calls the last handler made
    aborted,         \* a handler panicked
    pc,              \* position of should_render: "idle", "loop", "body"
    sr,              \* the running should_render call: resolutions, swaps,
                     \* notifications received since it began
    sw,              \* the last switch_keymap call: keymap and outcome
    last,            \* the last operation: op, key, button, ret
    track,           \* the touch in progress: key of the touch-down and the
                     \* letter keys entered since
    res,             \* the last keymap resolution: inputs, result, queries
    geo              \* the geometry builder: the layout it is given, its map

vars == << backend, KEYMAP_CHANGE, tasks, procs, clipboard, display_set,
           hid_modifiers, routed, clicks, predict_log, aborted, pc, sr, sw,
           last, track, res, geo >>

Active == backend.layout_panels[backend.active_layout]
KB == Active.state

Last(op, key, button, ret) == [op |-> op, key |-> key, button |-> button, ret |-> ret]
NoTouch == [down |-> "none", entered |-> <<>>]
NoSwitch == [called |-> FALSE, keymap |-> NoKeymap, status |-> "", ret |-> FALSE,
             built |-> FALSE]
NoRes == [fcitx |-> [ok |-> FALSE, v |-> <<>>], sys_wl |-> Err, sys_x11 |-> Err,
          result |-> Err, queries |-> <<>>, done |-> FALSE]
NoCall == [resolved |-> 0, swapped |-> 0, notified |-> 0]
NoGeo == [layout |-> [main_layout |-> <<>>, key_sizes |-> <<>>, row_size |-> 0],
          map |-> <<>>, done |-> FALSE]

\* the modifier state the HID holds after a handler routed `events`
RECURSIVE routed_modifiers(_, _)
routed_modifiers(before, events) ==
    IF events = <<>> THEN before
    ELSE routed_modifiers(IF Head(events).t = "mods" THEN Head(events).m ELSE before,
                          Tail(events))

\* ------------------------------------------------------------------- Init
\* create_keyboard succeeded: one panel, built for maybe_keymap, is active
create_keyboard(wayland, auto_labels, alt, clock, keymap, engine_ok) ==
    LET b0 == [ layout_panels |-> <<>>,
                layout_ids |-> <<>>,
                active_layout |-> 0,
                default_state |-> DefaultState(alt, clock),
                wlx_layout |-> [auto_labels |-> auto_labels],
                wayland |-> wayland ]
        maybe_keymap == IF ~unwrap_or(auto_labels, TRUE) THEN None ELSE keymap
        added == add_new_keymap(b0, maybe_keymap, TRUE, engine_ok, TRUE)
    IN  [added.b EXCEPT !.active_layout = added.id]

InitKeymaps == {None} \cup { Some(r.km) : r \in SystemKeymaps \ {Err} }
AutoLabels == { [some |-> FALSE, v |-> FALSE], [some |-> TRUE, v |-> FALSE],
                [some |-> TRUE, v |-> TRUE] }
AltModifiers == {"Shift", "Ctrl", "Alt", "Super", "Meta", "None"}

InitWith(Waylands, Autos, Alts, Clocks, Kms, Engines, Displays) ==
    /\ \E wayland \in Waylands, auto \in Autos, alt \in Alts, clock \in Clocks,
          km \in Kms, engine_ok \in Engines :
          backend = create_keyboard(wayland, auto, alt, clock, km, engine_ok)
    /\ display_set \in Displays
    /\ KEYMAP_CHANGE = FALSE
    /\ tasks = 0
    /\ procs = <<>>
    /\ clipboard = None
    /\ hid_modifiers = {}
    /\ routed = <<>>
    /\ clicks = 0
    /\ predict_log = <<>>
    /\ aborted = FALSE
    /\ pc = "idle"
    /\ sr = NoCall
    /\ sw = NoSwitch
    /\ last = Last("create_keyboard", "", "", TRUE)
    /\ track = NoTouch

\* ---------------------------------------------------------------- actions
Idle == ~aborted /\ pc = "idle"

\* what the prediction engine can answer: a ranked candidate list
Word1 == <<"h", "e", "y">>
Word2 == <<"h", "e">>
Predictions == { <<>>, <<Word1>>, <<Word2, Word1>> }

\* the outcomes the environment can give a handler on key k: they are drawn
\* only where the handler reads them
SpawnOutcomes(k) ==
    IF button_state(k) = "Exec" /\ Len(procs) < MaxProcs THEN BOOLEAN ELSE {FALSE}

Commits(k) ==
    /\ button_state(k) = "Key"
    /\ KB.swipe_engine
    /\ key_cap_type(k) = "Letter"
    /\ KB.is_swiping
    /\ KB.current_swipe_input # <<>>

PredictOutcomes(k) == IF Commits(k) THEN Predictions ELSE { <<>> }
SetTextOutcomes(k) == IF Commits(k) THEN BOOLEAN ELSE {TRUE}

ApplyEff(eff, l) ==
    /\ backend' = [backend EXCEPT
                      !.layout_panels[backend.active_layout].state = eff.kb,
                      !.layout_panels[backend.active_layout].keys = eff.keyst]
    /\ procs' = eff.procs
    /\ clipboard' = eff.clip
    /\ routed' = eff.routed
    /\ clicks' = eff.clicks
    /\ predict_log' = eff.predict
    /\ aborted' = eff.aborted
    /\ hid_modifiers' = routed_modifiers(hid_modifiers, eff.routed)
    /\ last' = l
    /\ UNCHANGED << KEYMAP_CHANGE, tasks, display_set, pc, sr, sw, res, geo >>

\* the pointer enters key k of the active panel
on_hover_enter(k) ==
    /\ Idle
    /\ Len(KB.current_swipe_input) < MaxSwipeLen
    /\ Len(track.entered) < MaxSwipeLen
    /\ ApplyEff(Eff(handle_enter(k, KB), Active.keys, <<>>, 0, procs, <<>>,
                    clipboard, FALSE, TRUE),
                Last("enter", k, "", TRUE))
    /\ track' = IF track.down # "none" /\ k \in LetterKeys
                THEN [track EXCEPT !.entered = Append(@, k)]
                ELSE track

\* handle_press reads the pointer button only for a Key off the swipe path
ReadsButton(k) == button_state(k) = "Key" /\ ~press_swipe_path(k, KB)

\* on_pointer(pressed = true) on key k of the active panel
on_pointer_down(k, button) ==
    /\ Idle
    /\ \E spawn_ok \in SpawnOutcomes(k) :
          ApplyEff(handle_press(k, button, KB, Active.keys, procs, clipboard, spawn_ok),
                   Last("press", k, IF ReadsButton(k) THEN button ELSE "", TRUE))
    /\ track' = [down |-> k, entered |-> <<>>]

\* on_pointer(pressed = false) on key k of the active panel
on_pointer_up(k) ==
    /\ Idle
    /\ \E spawn_ok \in SpawnOutcomes(k), prediction \in PredictOutcomes(k),
          set_text_ok \in SetTextOutcomes(k) :
          LET eff == handle_release(k, KB, Active.keys, procs, clipboard, spawn_ok,
                                    prediction, display_set, set_text_ok)
          IN  ApplyEff(eff, Last("release", k, "", eff.ret))
    /\ track' = NoTouch

\* a spawned process ends
process_exit(p) ==
    /\ ~aborted
    /\ p \in 1..Len(procs)
    /\ procs[p] = "running"
    /\ procs' = [procs EXCEPT ![p] = "exited"]
    /\ last' = Last("exit", "", "", TRUE)
    /\ UNCHANGED << backend, KEYMAP_CHANGE, tasks, clipboard, display_set,
                    hid_modifiers, routed, clicks, predict_log, aborted, pc, sr,
                    sw, track, res, geo >>

\* a pause that tells the HID and keeps the held mask
pause_keeps_mask ==
    /\ Idle
    /\ backend' = backend
    /\ routed' = << ModEv({}) >>
    /\ hid_modifiers' = {}
    /\ clicks' = 0
    /\ predict_log' = <<>>
    /\ last' = Last("pause", "", "", TRUE)
    /\ UNCHANGED << KEYMAP_CHANGE, tasks, procs, clipboard, display_set, aborted,
                    pc, sr, sw, track, res, geo >>

pause ==
    /\ Idle
    /\ backend' = [backend EXCEPT
                      !.layout_panels[backend.active_layout].state.modifiers = {}]
    /\ routed' = << ModEv({}) >>
    /\ hid_modifiers' = {}
    /\ clicks' = 0
    /\ predict_log' = <<>>
    /\ last' = Last("pause", "", "", TRUE)
    /\ UNCHANGED << KEYMAP_CHANGE, tasks, procs, clipboard, display_set, aborted,
                    pc, sr, sw, track, res, geo >>

\* init(): the active panel is initialised, or the initialisation fails
init ==
    /\ Idle
    /\ \E init_ok \in BOOLEAN :
          /\ backend' = [backend EXCEPT
                            !.layout_panels[backend.active_layout].initialized =
                                @ \/ init_ok]
          /\ last' = Last("init", "", "", init_ok)
    /\ routed' = <<>>
    /\ clicks' = 0
    /\ predict_log' = <<>>
    /\ UNCHANGED << KEYMAP_CHANGE, tasks, procs, clipboard, display_set,
                    hid_modifiers, aborted, pc, sr, sw, track, res, geo >>

\* ------------------------------------------------------------ should_render
\* the scheme names the IME reports while layouts are being switched
FcitxAnswers ==
    { [ok |-> FALSE, v |-> <<>>],
      [ok |-> TRUE, v |-> <<"keyboard", "-", "us">>],
      [ok |-> TRUE, v |-> <<"keyboard", "-", "de", "-", "intl">>],
      [ok |-> TRUE, v |-> <<"keyboard", "-", "xx">>],
      [ok |-> TRUE, v |-> <<"mozc">>] }

\* the external listener sets the flag, at any moment
notify_keymap_change ==
    /\ ~aborted
    /\ pc = "idle" \/ sr.notified < MaxResolve
    /\ KEYMAP_CHANGE' = TRUE
    /\ sr' = IF pc = "idle" THEN sr ELSE [sr EXCEPT !.notified = @ + 1]
    /\ last' = Last("notify", "", "", TRUE)
    /\ UNCHANGED << backend, tasks, procs, clipboard, display_set, hid_modifiers,
                    routed, clicks, predict_log, aborted, pc, sw, track, res, geo >>

\* the host runs the tasks of its queue
host_run_tasks ==
    /\ Idle
    /\ tasks > 0
    /\ tasks' = 0
    /\ last' = Last("tasks", "", "", TRUE)
    /\ UNCHANGED << backend, KEYMAP_CHANGE, procs, clipboard, display_set,
                    hid_modifiers, routed, clicks, predict_log, aborted, pc, sr,
                    sw, track, res, geo >>

\* KEYMAP_CHANGE.swap(false): the loop condition, on entry and after every
\* iteration that did not return.  When the flag is clear the call falls
\* through to self.panel().should_render(app) and returns.
should_render_poll ==
    /\ ~aborted
    /\ pc \in {"idle", "loop"}
    /\ pc = "idle" => tasks < MaxTasks
    /\ KEYMAP_CHANGE' = FALSE
    /\ pc' = IF KEYMAP_CHANGE THEN "body" ELSE "idle"
    /\ sr' = IF pc = "idle" THEN NoCall ELSE sr
    /\ last' = Last("poll", "", "", KEYMAP_CHANGE)
    /\ UNCHANGED << backend, tasks, procs, clipboard, display_set, hid_modifiers,
                    routed, clicks, predict_log, aborted, sw, track, res, geo >>

\* a loop body that returns its failure to the caller
body_continue_propagates(b, swrec, what) ==
    /\ backend' = b
    /\ sw' = swrec
    /\ pc' = "idle"
    /\ sr' = [sr EXCEPT !.resolved = @ + 1]
    /\ last' = Last("body", what, "", FALSE)
    /\ UNCHANGED << tasks, aborted, track >>

\* the loop body ended without returning
\* (what: "resolve failed" when switch_keymap was not called, else "switch")
body_continue(b, swrec, what) ==
    /\ backend' = b
    /\ sw' = swrec
    /\ pc' = "loop"
    /\ sr' = [sr EXCEPT !.resolved = @ + 1]
    /\ last' = Last("body", what, "", FALSE)
    /\ UNCHANGED << tasks, aborted, track >>

\* a loop that goes on after a switch
body_switched_continues(s, swrec, init_ok) ==
    /\ backend' = s.b
    /\ sw' = swrec
    /\ pc' = "loop"
    /\ sr' = [sr EXCEPT !.resolved = @ + 1, !.swapped = @ + 1]
    /\ tasks' = tasks + s.enqueued
    /\ last' = Last("body", "switch", "", TRUE)
    /\ track' = NoTouch
    /\ UNCHANGED aborted

\* switch_keymap returned true: the entering panel is initialised if it was
\* not, and should_render returns
body_switched(s, swrec, init_ok) ==
    LET b == s.b
        p == b.layout_panels[b.active_layout]
    IN  /\ backend' = IF ~p.initialized /\ init_ok
                      THEN [b EXCEPT !.layout_panels[b.active_layout].initialized = TRUE]
                      ELSE b
        /\ sw' = swrec
        /\ pc' = "idle"
        /\ sr' = [sr EXCEPT !.resolved = @ + 1, !.swapped = @ + 1]
        /\ tasks' = tasks + s.enqueued
        /\ last' = Last("body", "switch", "", p.initialized \/ init_ok)
        /\ track' = NoTouch
        /\ UNCHANGED aborted

SwitchRec(keymap, s) ==
    [called |-> TRUE, keymap |-> keymap, status |-> s.status, ret |-> s.ret,
     built |-> s.built]

\* what get_effective_keymap can return while layouts are being switched
ResolveOutcomes ==
    { get_effective_keymap(backend.wayland, fcitx, sys_wl, sys_x11).result :
        fcitx \in FcitxAnswers, sys_wl \in SystemKeymaps, sys_x11 \in SystemKeymaps }

\* what switch_keymap can do with keymap km, over the outcomes of opening the
\* clipboard, loading the swipe engines and building the panel
SwitchOutcomes(km) ==
    { switch_keymap(backend, km, clipboard_ok, engine_new_ok, build_ok, engine_ok) :
        clipboard_ok \in BOOLEAN, engine_new_ok \in BOOLEAN,
        build_ok \in BOOLEAN, engine_ok \in BOOLEAN }

\* one iteration of the loop: auto_switch_keymap and what follows it
should_render_body ==
    /\ ~aborted
    /\ pc = "body"
    /\ \E r \in ResolveOutcomes :
          IF ~r.ok
          THEN body_continue(backend, sw, "resolve failed")
          ELSE \E s \in SwitchOutcomes(r.km) :
                  CASE s.status = "abort" ->
                          /\ aborted' = TRUE
                          /\ sw' = SwitchRec(r.km, s)
                          /\ sr' = [sr EXCEPT !.resolved = @ + 1]
                          /\ last' = Last("body", "switch", "", FALSE)
                          /\ UNCHANGED << backend, pc, tasks, track >>
                    [] s.status = "ok" /\ s.ret ->
                          \E init_ok \in BOOLEAN :
                              body_switched(s, SwitchRec(r.km, s), init_ok)
                    [] OTHER -> body_continue(s.b, SwitchRec(r.km, s), "switch")
    /\ routed' = <<>>
    /\ clicks' = 0
    /\ predict_log' = <<>>
    /\ UNCHANGED << KEYMAP_CHANGE, procs, clipboard, display_set, hid_modifiers, res, geo >>

\* ------------------------------------------------------- keymap resolution
Tokens == {"-", "keyboard", "us", "intl", "mozc", "xx"}

\* scheme names of up to MaxTokens tokens; two runs are always separated by
\* a hyphen
MaxTokens == 5
SchemeNames ==
    UNION { { n \in [1..len -> Tokens] :
                \A i \in 1..(len - 1) : n[i] = "-" \/ n[i + 1] = "-" } : len \in 0..MaxTokens }

\* get_effective_keymap runs on the answers the IME and the two system
\* queries have ready
get_effective_keymap_call ==
    /\ ~res.done
    /\ LET r == get_effective_keymap(backend.wayland, res.fcitx, res.sys_wl, res.sys_x11)
       IN  res' = [res EXCEPT !.result = r.result, !.queries = r.queries, !.done = TRUE]
    /\ last' = Last("resolve", "", "", TRUE)
    /\ UNCHANGED << backend, KEYMAP_CHANGE, tasks, procs, clipboard, display_set,
                    hid_modifiers, routed, clicks, predict_log, aborted, pc, sr, sw,
                    track, geo >>

\* ---------------------------------------------------------- specifications
\* The key event state machine on the panel built by create_keyboard: plain
\* and letter keys under every held modifier mask.
ModSpecKeys == {"kH", "k1", "kShift", "kNum"}

InitKeys ==
    /\ InitWith({TRUE}, {[some |-> FALSE, v |-> FALSE]}, {"Alt", "None"}, {FALSE},
                {None}, BOOLEAN, {TRUE})
    /\ res = NoRes
    /\ geo = NoGeo

NextKeys ==
    \/ \E k \in ModSpecKeys : on_hover_enter(k)
    \/ \E k \in ModSpecKeys, button \in MouseButtons : on_pointer_down(k, button)
    \/ \E k \in ModSpecKeys : on_pointer_up(k)
    \/ pause

SpecKeys == InitKeys /\ [][NextKeys]_vars

\* Swipe typing on a panel whose swipe engine loaded: letter keys, a plain
\* key and a modifier key, with every answer of the prediction engine and of
\* the clipboard.
SwipeSpecKeys == {"kH", "kE", "k1", "kShift"}

InitSwipe ==
    /\ InitWith({TRUE}, {[some |-> FALSE, v |-> FALSE]}, {"None"}, {FALSE},
                {None}, {TRUE}, BOOLEAN)
    /\ res = NoRes
    /\ geo = NoGeo

NextSwipe ==
    \/ \E k \in SwipeSpecKeys : on_hover_enter(k)
    \/ \E k \in SwipeSpecKeys : on_pointer_down(k, "Left")
    \/ \E k \in SwipeSpecKeys : on_pointer_up(k)

SpecSwipe == InitSwipe /\ [][NextSwipe]_vars

\* The Exec keys and the processes they spawn; the pointer also hovers over
\* a letter key.
InitExec ==
    /\ InitWith({TRUE}, {[some |-> FALSE, v |-> FALSE]}, {"None"}, {FALSE},
                {None}, BOOLEAN, {TRUE})
    /\ res = NoRes
    /\ geo = NoGeo

NextExec ==
    \/ on_hover_enter("kH")
    \/ \E k \in ExecKeys : on_pointer_down(k, "Left")
    \/ \E k \in ExecKeys : on_pointer_up(k)
    \/ \E p \in 1..(MaxProcs + 1) : process_exit(p)

SpecExec == InitExec /\ [][NextExec]_vars

\* The backend over its lifetime: layout-change notifications and the
\* should_render loop, with the key events that give the panels a state worth
\* carrying over (a held modifier, a swipe in progress, a tracked process).
InitSwap ==
    /\ InitWith({TRUE}, { [some |-> FALSE, v |-> FALSE], [some |-> TRUE, v |-> FALSE] },
                {"None"}, {FALSE},
                { Some(Keymap("us", "", SomeStr("us"))) }, {TRUE}, {TRUE})
    /\ res = NoRes
    /\ geo = NoGeo

\* Each panel is given its state by at most one hover and one modifier
\* touch-down, and one process is spawned; a notification arrives between
\* calls of should_render.
Next ==
    \/ KB.current_swipe_input = <<>> /\ on_hover_enter("kE")
    \/ KB.modifiers = {} /\ on_pointer_down("kShift", "Left")
    \/ procs = <<>> /\ on_pointer_down("kExecNoRel", "Left")
    \/ pc = "idle" /\ notify_keymap_change
    \/ host_run_tasks
    \/ should_render_poll
    \/ should_render_body

Spec == InitSwap /\ [][Next]_vars

\* One should_render call after another while the listener sets the flag at
\* any moment, also in the middle of a call.
NextRender ==
    \/ notify_keymap_change
    \/ host_run_tasks
    \/ should_render_poll
    \/ should_render_body

SpecRender == InitSwap /\ [][NextRender]_vars

\* The keymap resolver on every answer of the IME and of the system queries,
\* under both display protocols.
InitResolve ==
    /\ InitWith(BOOLEAN, {[some |-> FALSE, v |-> FALSE]}, {"None"}, {FALSE},
                {None}, {TRUE}, {TRUE})
    /\ \E fcitx \in { [ok |-> FALSE, v |-> <<>>] }
                        \cup { [ok |-> TRUE, v |-> n] : n \in SchemeNames },
          sys_wl \in SystemKeymaps, sys_x11 \in SystemKeymaps :
          res = [NoRes EXCEPT !.fcitx = fcitx, !.sys_wl = sys_wl, !.sys_x11 = sys_x11]
    /\ geo = NoGeo

NextResolve == get_effective_keymap_call

SpecResolve == InitResolve /\ [][NextResolve]_vars

\* One key of every kind, with and without a swipe engine: a letter key, a
\* plain key, a modifier key, a macro key and an Exec key with a release
\* program; the pointer also enters the letter keys.
AllKindsKeys == {"kH", "k1", "kShift", "kMacro", "kExec"}

InitAllKinds ==
    /\ InitWith({TRUE}, {[some |-> FALSE, v |-> FALSE]}, {"None"}, {FALSE},
                {None}, BOOLEAN, {TRUE})
    /\ res = NoRes
    /\ geo = NoGeo

NextAllKinds ==
    \/ \E k \in {"kH", "kE"} : on_hover_enter(k)
    \/ \E k \in AllKindsKeys : on_pointer_down(k, "Left")
    \/ \E k \in AllKindsKeys : on_pointer_up(k)

SpecAllKinds == InitAllKinds /\ [][NextAllKinds]_vars

\* resume(): the active panel is resumed and told of a state change; the
\* keyboard state, the arena and the HID are left alone
resume ==
    /\ Idle
    /\ routed' = <<>>
    /\ clicks' = 0
    /\ predict_log' = <<>>
    /\ last' = Last("resume", "", "", TRUE)
    /\ UNCHANGED << backend, KEYMAP_CHANGE, tasks, procs, clipboard, display_set,
                    hid_modifiers, aborted, pc, sr, sw, track, res, geo >>

\* The lifecycle calls of the overlay (init, pause, resume, should_render)
\* together with layout-change notifications and the pointer on a modifier
\* key; every resolution, panel build and panel initialisation can fail.
NextLife ==
    \/ on_pointer_down("kShift", "Left")
    \/ on_pointer_up("kShift")
    \/ init
    \/ pause
    \/ resume
    \/ pc = "idle" /\ notify_keymap_change
    \/ host_run_tasks
    \/ should_render_poll
    \/ should_render_body

SpecLife == InitSwap /\ [][NextLife]_vars

\* The held modifier mask and the mask routed to the HID over key events of
\* every kind, swipe commits, pause, resume and hot-swaps: the pointer is
\* released on the key it went down on, or on the other letter key after it
\* entered it while a letter key was down, and one process is spawned.
ModsKeys == {"kH", "k1", "kShift", "kMacro", "kExecNoRel"}
HotSwapKeys == {"k1", "kShift"}

\* a keyboard whose labels follow the keymap hot-swaps and is touched on the
\* keys that change the held mask; one with fixed labels never swaps and is
\* touched on every key
KeysAt(b) ==
    IF unwrap_or(b.wlx_layout.auto_labels, TRUE) THEN HotSwapKeys ELSE ModsKeys

NextMods ==
    \/ track.down = "kH" /\ track.entered = <<>> /\ on_hover_enter("kE")
    \/ \E k \in KeysAt(backend) :
          /\ tasks = 0
          /\ button_state(k) = "Exec" => procs = <<>>
          /\ on_pointer_down(k, "Left")
    \/ tasks = 0 /\ on_pointer_down("k1", "Right")
    \/ \E k \in KeysAt(backend) :
          track.down = k /\ track.entered = <<>> /\ on_pointer_up(k)
    \/ track.down = "kH" /\ track.entered # <<>> /\ on_pointer_up("kE")
    \/ tasks = 0 /\ track = NoTouch /\ pause
    \/ tasks = 0 /\ track = NoTouch /\ resume
    \/ pc = "idle" /\ tasks = 0 /\ ~KEYMAP_CHANGE /\ notify_keymap_change
    \/ host_run_tasks
    \/ (KEYMAP_CHANGE \/ pc = "loop") /\ should_render_poll
    \/ should_render_body

SpecMods == InitSwap /\ [][NextMods]_vars

\* ----------------------------------------------------- the geometry builder
\* The static layout: main_layout is the rows of key slots, key_sizes the
\* width of every slot, row_size the width of the overlay in key units.  A
\* slot is what layout.get_key_data answers for it under the keymap: no label,
\* or a cap type and a list of label strings.
MaxSlots == 3

NoLabel == [some |-> FALSE, cap_type |-> "", label |-> <<>>]
KeyLabel(cap_type, label) == [some |-> TRUE, cap_type |-> cap_type, label |-> label]

SlotLabels ==
    { NoLabel,
      KeyLabel("Letter", <<>>),
      KeyLabel("Letter", << <<"H">> >>),
      KeyLabel("Letter", << <<"e">> >>),
      KeyLabel("Letter", << <<"E">>, <<"e">> >>),
      KeyLabel("Symbol", << <<"1">> >>) }

KeyWidths == {1, 2}
RowSizes == {1, 2}

SeqsUpTo(S, n) == UNION { [1..len -> S] : len \in 0..n }

\* the layout whose slots, in row-major order, are `slots` (label, width),
\* a new row beginning after every slot whose index is in `breaks`
MakeLayout(slots, breaks, row_size) ==
    LET RowOf(i) == 1 + Cardinality({ b \in breaks : b < i })
        Cols(r) == { i \in 1..Len(slots) : RowOf(i) = r }
        First(r) == CHOOSE i \in Cols(r) : \A j \in Cols(r) : i <= j
        NRows == IF slots = <<>> THEN 0 ELSE Cardinality(breaks) + 1
        Row(r, f) == [c \in 1..Cardinality(Cols(r)) |-> slots[First(r) + c - 1][f]]
    IN  [ main_layout |-> [r \in 1..NRows |-> Row(r, 1)],
          key_sizes |-> [r \in 1..NRows |-> Row(r, 2)],
          row_size |-> row_size ]

get_key_data(layout, col_idx, row_idx) == layout.main_layout[row_idx][col_idx]

Point(x, y) == [x |-> x, y |-> y]

\* a variant in which a letter keeps the point it got first
record_letter_first_wins(map, label, pos_x, pos_y) ==
    IF label.label # <<>> /\ to_ascii_lowercase(label.label[1])[1] \notin DOMAIN map
    THEN map_insert(map, to_ascii_lowercase(label.label[1])[1], Point(pos_x, pos_y))
    ELSE map

\* the Letter arm: the first label, lowercased, is given the cursor position
record_letter(map, label, pos_x, pos_y) ==
    IF label.label # <<>>
    THEN map_insert(map, to_ascii_lowercase(label.label[1])[1], Point(pos_x, pos_y))
    ELSE map

\* a variant in which the y-cursor stays where it is
next_row_y_stays(pos_y) == pos_y

\* pos_y += 1.0
next_row_y(pos_y) == pos_y + 1

\* the two loops, from slot (row_idx, col_idx) on, indices from 1
RECURSIVE build_from(_, _, _, _, _, _)
build_from(layout, row_idx, col_idx, pos_x, pos_y, map) ==
    IF row_idx > Len(layout.main_layout) THEN map
    ELSE IF col_idx > Len(layout.main_layout[row_idx])
    THEN build_from(layout, row_idx + 1, 1, 0, next_row_y(pos_y), map)
    ELSE LET label == get_key_data(layout, col_idx, row_idx)
             map2 == IF label.some /\ label.cap_type = "Letter"
                     THEN record_letter(map, label, pos_x, pos_y)
                     ELSE map
         IN  build_from(layout, row_idx, col_idx + 1,
                        pos_x + layout.key_sizes[row_idx][col_idx], pos_y, map2)

build_key_to_char_point_map(layout) == build_from(layout, 1, 1, 0, 0, <<>>)

\* create_new_swipe_engine builds the map for the layout it is given
build_key_to_char_point_map_call ==
    /\ ~geo.done
    /\ geo' = [geo EXCEPT !.map = build_key_to_char_point_map(geo.layout),
                          !.done = TRUE]
    /\ last' = Last("build", "", "", TRUE)
    /\ UNCHANGED << backend, KEYMAP_CHANGE, tasks, procs, clipboard, display_set,
                    hid_modifiers, routed, clicks, predict_log, aborted, pc, sr, sw,
                    track, res >>

\* The geometry builder on every layout of up to MaxSlots slots, in rows
\* that are not empty.
InitGeometry ==
    /\ InitWith({TRUE}, {[some |-> FALSE, v |-> FALSE]}, {"None"}, {FALSE},
                {None}, {TRUE}, {TRUE})
    /\ res = NoRes
    /\ \E slots \in SeqsUpTo(SlotLabels \X KeyWidths, MaxSlots), row_size \in RowSizes :
          \E breaks \in SUBSET (1..(Len(slots) - 1)) :
              geo = [NoGeo EXCEPT !.layout = MakeLayout(slots, breaks, row_size)]

NextGeometry == build_key_to_char_point_map_call

SpecGeometry == InitGeometry /\ [][NextGeometry]_vars

\* ------------------------------------------------------------------ claims
AutoReleaseBits == UNION RangeOf(AUTO_RELEASE_MODS)
StepIs(op, k) == last'.op = op /\ last'.key = k
Sticky(k) == Active.keys.sticky[k]

\* C1: a touch-down on a Modifier key whose bit is unset marks the key sticky
\* and sets the bit; the touch-up on a sticky key changes nothing, routes
\* nothing and returns "not consumed"; a touch-down while the bit is set marks
\* the key non-sticky, and the touch-up on a non-sticky key clears the bit,
\* routes the updated mask and returns "consumed".  Between the touch-down and
\* the touch-up on a key its sticky mark does not change.
C1_Step ==
    \A k \in ModKeys :
        LET bit == key_modifier(k)
            held == (KB.modifiers \cap bit) # {}
        IN  /\ StepIs("press", k) =>
                /\ Sticky(k)' = ~held
                /\ bit \subseteq KB'.modifiers
                /\ KB'.modifiers = KB.modifiers \cup bit
            /\ (StepIs("release", k) /\ Sticky(k)) =>
                /\ KB' = KB
                /\ routed' = <<>>
                /\ hid_modifiers' = hid_modifiers
                /\ last'.ret = FALSE
            /\ (StepIs("release", k) /\ ~Sticky(k)) =>
                /\ KB'.modifiers = KB.modifiers \ bit
                /\ routed' = << ModEv(KB'.modifiers) >>
                /\ last'.ret = TRUE
            /\ ~StepIs("press", k) => Sticky(k)' = Sticky(k)

C1_StickyModifier == [][C1_Step]_vars

\* C1 witness: the second touch-down on Shift found its bit set and marked
\* the key non-sticky, while NumLock, touched once, is held and sticky
C1_Witness ==
    /\ last.op = "press"
    /\ last.key = "kShift"
    /\ ~Sticky("kShift")
    /\ Sticky("kNum")
    /\ KB.modifiers = SHIFT \cup NUM_LOCK

\* C2 (as claimed): after the touch-up of an ordinary Key that follows the
\* touch-down on it, no bit of SHIFT, CTRL, ALT, SUPER, META is held
C2_Step ==
    \A k \in KeyKeys :
        (StepIs("release", k) /\ track.down = k) =>
            (KB'.modifiers \cap AutoReleaseBits) = {}

C2_AutoReleaseAfterAnyKey == [][C2_Step]_vars

RECURSIVE LowerLabels(_)
LowerLabels(keys) ==
    IF keys = <<>> THEN <<>>
    ELSE to_ascii_lowercase(key_label(Head(keys))) \o LowerLabels(Tail(keys))

\* a touch went down on letter key a, the pointer then entered letter keys
\* b1..bn (n >= 1, b1 # a), and the step is the touch-up on bn
SwipeEnds ==
    /\ KB.swipe_engine
    /\ track.down \in LetterKeys
    /\ track.entered # <<>>
    /\ key_label(track.entered[1]) # key_label(track.down)
    /\ StepIs("release", track.entered[Len(track.entered)])

SwipePath == LowerLabels(<< track.down >> \o track.entered)

\* C3 (as claimed): the touch-up that ends a swipe calls the prediction once,
\* with the path of the lowercased labels, the previous word as context and
\* top-N 5; afterwards the buffer is empty, the clipboard holds the
\* first-ranked word and a space, and that word is the next context
C3_Step ==
    SwipeEnds =>
        /\ Len(predict_log') = 1
        /\ predict_log'[1].path = SwipePath
        /\ predict_log'[1].context = KB.last_swiped_word
        /\ predict_log'[1].top_n = 5
        /\ KB'.current_swipe_input = <<>>
        /\ predict_log'[1].answer # <<>>
        /\ clipboard' = Some(predict_log'[1].answer[1] \o <<" ">>)
        /\ KB'.last_swiped_word = Some(predict_log'[1].answer[1])

C3_SwipeCommits == [][C3_Step]_vars

\* the same, for the touch-ups that did not panic
C3_StepCompleted == (SwipeEnds /\ ~aborted') => C3_Step

C3_SwipeCommitsUnlessPanic == [][C3_StepCompleted]_vars

\* C4: with swipe support active, the touch-down on a letter key routes no
\* event; its touch-up, when no letter key with another label was entered in
\* between, routes exactly the key-down and then the key-up of the key's
\* virtual key, calls no prediction and leaves the clipboard alone
TapEnds(k) ==
    /\ KB.swipe_engine
    /\ track.down = k
    /\ \A i \in 1..Len(track.entered) : key_label(track.entered[i]) = key_label(k)
    /\ StepIs("release", k)

C4_Step ==
    \A k \in LetterKeys :
        /\ (KB.swipe_engine /\ StepIs("press", k)) => routed' = <<>>
        /\ TapEnds(k) =>
              /\ routed' = << KeyEv(key_vk(k), TRUE), KeyEv(key_vk(k), FALSE) >>
              /\ predict_log' = <<>>
              /\ clipboard' = clipboard
              /\ ~aborted'

C4_TapRoutesDownUp == [][C4_Step]_vars

\* C4 witness: a tap on H was routed after an earlier swipe had committed a
\* word (the swiping flag of that swipe did not survive the touch-down)
C4_Witness ==
    /\ last.op = "release"
    /\ last.key = "kH"
    /\ routed = << KeyEv("VK_H", TRUE), KeyEv("VK_H", FALSE) >>
    /\ predict_log = <<>>
    /\ KB.last_swiped_word.some
    /\ clipboard.some

\* the tracked processes that have not exited, in order
StillRunning == SelectSeq(KB.processes, LAMBDA p : procs[p] = "running")
Spawned == Len(procs') = Len(procs) + 1
ExecProcesses(may_spawn) ==
    /\ ~aborted'
    /\ Len(procs') \in { Len(procs), Len(procs) + 1 }
    /\ Spawned => may_spawn
    /\ KB'.processes = IF Spawned THEN Append(StillRunning, Len(procs'))
                       ELSE StillRunning
RestOf(kb) == [kb EXCEPT !.processes = <<>>]

\* C8 (as claimed): every Exec touch-down and touch-up first drops the exited
\* processes, then appends the process it spawned, the touch-up only when a
\* release program is configured; a failed spawn appends nothing, raises no
\* error and leaves the rest of the keyboard state unchanged
C8_StepClaimed ==
    \A k \in ExecKeys :
        /\ StepIs("press", k) =>
              /\ ExecProcesses(TRUE)
              /\ ~Spawned => RestOf(KB') = RestOf(KB)
        /\ StepIs("release", k) =>
              /\ ExecProcesses(key_release_program(k).some)
              /\ ~Spawned => RestOf(KB') = RestOf(KB)

C8_Step ==
    \A k \in ExecKeys :
        /\ StepIs("press", k) =>
              /\ ExecProcesses(TRUE)
              /\ RestOf(KB') = RestOf([KB EXCEPT !.is_swiping = FALSE])
        /\ StepIs("release", k) =>
              /\ ExecProcesses(key_release_program(k).some)
              /\ RestOf(KB') = RestOf(KB)

SwitchCalled == StepIs("body", "switch")
AutoLabelsDisabled == backend.wlx_layout.auto_labels = [some |-> TRUE, v |-> FALSE]
MapsToActive(km) ==
    /\ km.name.some
    /\ km.name.v \in DOMAIN backend.layout_ids
    /\ backend.layout_ids[km.name.v] = backend.active_layout
ReturnedFalse ==
    /\ sw'.status = "ok"
    /\ ~sw'.ret
    /\ ~sw'.built
    /\ ~aborted'
NothingBuiltOrEnqueued ==
    /\ DOMAIN backend'.layout_panels = DOMAIN backend.layout_panels
    /\ tasks' = tasks

\* C5 (as claimed): switch_keymap returns false and changes nothing when
\* auto-labelling is disabled or the name is mapped to the active panel, and
\* a call with the keymap of the call before it returns false, builds no
\* panel and enqueues no task
C5_StepClaimed ==
    SwitchCalled =>
        /\ (AutoLabelsDisabled \/ MapsToActive(sw'.keymap)) =>
              (ReturnedFalse /\ backend' = backend /\ tasks' = tasks)
        /\ (sw.called /\ sw.keymap = sw'.keymap) =>
              (ReturnedFalse /\ NothingBuiltOrEnqueued)

C5_Step ==
    SwitchCalled =>
        /\ (AutoLabelsDisabled \/ MapsToActive(sw'.keymap)) =>
              (ReturnedFalse /\ backend' = backend /\ tasks' = tasks)
        /\ (sw.called /\ sw.keymap = sw'.keymap /\ sw.status = "ok") =>
              (ReturnedFalse /\ NothingBuiltOrEnqueued)

HotSwap == SwitchCalled /\ sw'.status = "ok" /\ sw'.ret

\* C6: after a hot-swap the active panel's state has the modifiers, the
\* alternate modifier, the processes and the clock mode the previously active
\* panel had just before, and fresh swipe fields (empty buffer, not swiping,
\* empty last-pressed label, no last word), whatever the entering panel held;
\* the leaving panel's process list is empty
C6_Step ==
    HotSwap =>
        /\ backend'.active_layout # backend.active_layout
        /\ KB'.modifiers = KB.modifiers
        /\ KB'.alt_modifier = KB.alt_modifier
        /\ KB'.processes = KB.processes
        /\ KB'.clock_12h = KB.clock_12h
        /\ KB'.current_swipe_input = <<>>
        /\ ~KB'.is_swiping
        /\ KB'.last_pressed_key_label = <<>>
        /\ KB'.last_swiped_word = None
        /\ backend'.layout_panels[backend.active_layout].state.processes = <<>>

C6_SwapCarriesFourFields == [][C6_Step]_vars

\* C6 witness: a cached panel was swapped back in and holds Shift and the
\* spawned process, while the panel left behind holds a swipe buffer
C6_Witness ==
    /\ last.op = "body"
    /\ last.key = "switch"
    /\ sw.ret
    /\ ~sw.built
    /\ KB.modifiers = SHIFT
    /\ KB.processes = << 1 >>
    /\ KB.current_swipe_input = <<>>
    /\ \E i \in DOMAIN backend.layout_panels :
          /\ i # backend.active_layout
          /\ backend.layout_panels[i].state.current_swipe_input # <<>>
          /\ backend.layout_panels[i].state.processes = <<>>

\* C7: at most one panel is built per layout name: every id of the name map
\* is a panel of the arena, built for that name; distinct names map to
\* distinct panels; no two panels were built for one name; a switch to a
\* known name builds nothing and activates the panel mapped to the name; no
\* panel is ever removed
C7_Inv ==
    LET panels == backend.layout_panels
        ids == backend.layout_ids
    IN  /\ backend.active_layout \in DOMAIN panels
        /\ \A n \in DOMAIN ids :
              /\ ids[n] \in DOMAIN panels
              /\ panels[ids[n]].keymap_name = SomeStr(n)
        /\ \A n, m \in DOMAIN ids : ids[n] = ids[m] => n = m
        /\ \A i, j \in DOMAIN panels :
              (panels[i].keymap_name.some /\ panels[i].keymap_name = panels[j].keymap_name)
                  => i = j

C7_Step ==
    /\ DOMAIN backend.layout_panels \subseteq DOMAIN backend'.layout_panels
    /\ \A n \in DOMAIN backend.layout_ids :
          /\ n \in DOMAIN backend'.layout_ids
          /\ backend'.layout_ids[n] = backend.layout_ids[n]
    /\ (SwitchCalled /\ sw'.keymap.name.some
           /\ sw'.keymap.name.v \in DOMAIN backend.layout_ids) =>
          /\ ~sw'.built
          /\ DOMAIN backend'.layout_panels = DOMAIN backend.layout_panels
          /\ sw'.status = "ok" =>
                backend'.active_layout = backend.layout_ids[sw'.keymap.name.v]

C7_OnePanelPerName == []C7_Inv /\ [][C7_Step]_vars

\* C7 witness: after a panel was built for "de", a switch back to "us"
\* activated the panel create_keyboard had built, and the arena holds two
\* panels
C7_Witness ==
    /\ last.op = "body"
    /\ last.key = "switch"
    /\ sw.ret
    /\ ~sw.built
    /\ sw.keymap.name = SomeStr("us")
    /\ backend.active_layout = 1
    /\ Cardinality(DOMAIN backend.layout_panels) = 2
    /\ DOMAIN backend.layout_ids = {"us", "de"}

\* ---- the should_render loop
\* C9 (as claimed): one should_render call resolves the keymap at most once
\* and hot-swaps at most once
C9_AtMostOneResolve == sr.resolved <= 1 /\ sr.swapped <= 1

\* C9 (amended): one should_render call hot-swaps at most once; it resolves
\* the keymap once for the flag it found set and at most once more for every
\* notification that arrived during the call
C9_OneSwapPerCall ==
    /\ sr.swapped <= 1
    /\ sr.resolved <= 1 + sr.notified
    /\ sr.swapped = 1 => pc = "idle"

\* C9 witness: a call resolved twice, the second time after a notification
\* that arrived during the call, swapped then and returned
C9_Witness ==
    /\ pc = "idle"
    /\ sr.resolved = 2
    /\ sr.notified = 1
    /\ sr.swapped = 1

\* ---- the keymap resolver
\* keyboard-<layout>(-<variant>)?
MatchesPattern(name) ==
    \E l \in Tokens \ {"-"} :
        \/ name = << "keyboard", "-", l >>
        \/ \E v \in Tokens \ {"-"} : name = << "keyboard", "-", l, "-", v >>

SystemQuery == IF backend.wayland THEN "get_keymap_wl" ELSE "get_keymap_x11"

\* C10: the resolver asks the IME first; it derives the keymap from the
\* scheme name, asking nothing else, exactly when the name has the form
\* keyboard-<layout>(-<variant>)?; otherwise (an IME alias, any other name, or
\* no answer) its result is the result of the system query of the display
\* protocol, the only other query made
C10_ResolverOrder ==
    res.done =>
        /\ res.queries[1] = "fcitx_keymap"
        /\ IF res.fcitx.ok /\ MatchesPattern(res.fcitx.v)
           THEN /\ res.queries = << "fcitx_keymap" >>
                /\ res.result =
                      from_layout_variant(res.fcitx.v[3],
                                          IF Len(res.fcitx.v) = 5 THEN res.fcitx.v[5] ELSE "")
           ELSE /\ res.queries = << "fcitx_keymap", SystemQuery >>
                /\ res.result = IF backend.wayland THEN res.sys_wl ELSE res.sys_x11

\* C10 witness: under Wayland the IME reported the alias "mozc" and the
\* resolver returned the Wayland keymap, not the X11 one
C10_Witness ==
    /\ res.done
    /\ backend.wayland
    /\ res.fcitx = [ok |-> TRUE, v |-> << "mozc" >>]
    /\ res.sys_wl = Ok(Keymap("us", "", SomeStr("us")))
    /\ res.sys_x11 = Ok(Keymap("de", "", SomeStr("de")))
    /\ res.result = res.sys_wl

\* ---- failures of the IME step
SystemResult == IF backend.wayland THEN res.sys_wl ELSE res.sys_x11
ImeKeymap ==
    from_layout_variant(res.fcitx.v[3],
                        IF Len(res.fcitx.v) = 5 THEN res.fcitx.v[5] ELSE "")
ImeStepFailed ==
    \/ ~res.fcitx.ok
    \/ MatchesPattern(res.fcitx.v) /\ ~ImeKeymap.ok

\* C11 (as claimed): when the IME query fails, or the scheme name cannot be
\* turned into a keymap, the resolver returns the result of the system keymap
\* query; it fails only if the system query fails
C11_ImeFailureFallsBack ==
    res.done =>
        /\ ImeStepFailed => res.result = SystemResult
        /\ ~res.result.ok => ~SystemResult.ok

\* ---- the geometry map
GeoSlots ==
    { rc \in (1..MaxSlots) \X (1..MaxSlots) :
        /\ rc[1] <= Len(geo.layout.main_layout)
        /\ rc[2] <= Len(geo.layout.main_layout[rc[1]]) }
GeoSlot(rc) == geo.layout.main_layout[rc[1]][rc[2]]
LetterSlots ==
    { rc \in GeoSlots :
        GeoSlot(rc).some /\ GeoSlot(rc).cap_type = "Letter" /\ GeoSlot(rc).label # <<>> }
LetterCases == { <<"H", "h">>, <<"h", "h">>, <<"E", "e">>, <<"e", "e">> }
SlotLetter(rc) ==
    CHOOSE l \in {"h", "e"} : << GeoSlot(rc).label[1][1], l >> \in LetterCases
VisitedBefore(a, b) == a[1] < b[1] \/ (a[1] = b[1] /\ a[2] < b[2])
LastSlot(ch) ==
    CHOOSE rc \in LetterSlots :
        /\ SlotLetter(rc) = ch
        /\ \A o \in LetterSlots : SlotLetter(o) = ch => (o = rc \/ VisitedBefore(o, rc))
RECURSIVE WidthsBefore(_, _)
WidthsBefore(r, c) ==
    IF c = 1 THEN 0 ELSE WidthsBefore(r, c - 1) + geo.layout.key_sizes[r][c - 1]
SlotPoint(rc) == [x |-> WidthsBefore(rc[1], rc[2]), y |-> rc[1] - 1]

RoutesKeyEvent == \E i \in 1..Len(routed') : routed'[i].t = "key"
RoutesChangedMask ==
    /\ \E i \in 1..Len(routed') : routed'[i].t = "mods"
    /\ hid_modifiers' # hid_modifiers
ActsVisibly(k) ==
    \/ RoutesKeyEvent
    \/ RoutesChangedMask
    \/ StepIs("press", k) /\ button_state(k) \in {"Macro", "Exec"}
    \/ StepIs("release", k) /\ button_state(k) = "Exec" /\ key_release_program(k).some
SwipeAccumulation(k) ==
    StepIs("press", k) /\ KB.swipe_engine /\ key_cap_type(k) = "Letter"
StickyRelease(k) ==
    StepIs("release", k) /\ button_state(k) = "Modifier" /\ Sticky(k)

\* C14 (as claimed): every touch-down or touch-up that routes a key event or
\* a changed modifier mask, replays a macro or runs the Exec spawn step plays
\* the key click, and the only touch-downs and touch-ups that play none are
\* the letter touch-down under swipe support and the touch-up of a sticky
\* modifier
C14_StepClaimed ==
    \A k \in Keys :
        ((StepIs("press", k) \/ StepIs("release", k)) /\ ~aborted') =>
            /\ ActsVisibly(k) => clicks' >= 1
            /\ clicks' = 0 => (SwipeAccumulation(k) \/ StickyRelease(k))

C14_EveryActionClicks == [][C14_StepClaimed]_vars

\* C14 (amended): a touch-down plays the key click exactly once, except the
\* letter touch-down under swipe support, which plays none; a touch-up plays
\* it, once, exactly when it is the tap that routes the key-down and the
\* key-up of a letter key; an entry plays none
C14_Step ==
    \A k \in Keys :
        /\ StepIs("press", k) =>
              clicks' = IF SwipeAccumulation(k) THEN 0 ELSE 1
        /\ StepIs("release", k) =>
              clicks' = IF routed' = << KeyEv(key_vk(k), TRUE), KeyEv(key_vk(k), FALSE) >>
                        THEN 1 ELSE 0
        /\ StepIs("enter", k) => clicks' = 0

C14_ClickOnTouchDown == [][C14_Step]_vars

\* C14 witness: the touch-up of the plain key routed its key-up and the
\* modifier mask and played no click
C14_Witness ==
    /\ last.op = "release"
    /\ last.key = "k1"
    /\ ~aborted
    /\ routed = << KeyEv("VK_1", FALSE), ModEv({}) >>
    /\ clicks = 0

\* ---- the active panel
\* C15: after create_keyboard, whatever lifecycle calls, pointer events and
\* layout-change notifications follow, and whichever of the keymap
\* resolutions, panel builds and panel initialisations fail, active_layout is
\* the key of a panel of the arena, so panel() never aborts
C15_ActivePanelExists == backend.active_layout \in DOMAIN backend.layout_panels

\* C15 witness: a switch built and activated a second panel, and the
\* initialisation of that panel has just failed
C15_Witness ==
    /\ last.op = "init"
    /\ ~last.ret
    /\ sw.called
    /\ sw.built
    /\ backend.active_layout = 2
    /\ ~Active.initialized

\* ---- a failed keymap resolution
ResolveFailed == pc = "body" /\ last'.op = "body" /\ last'.key = "resolve failed"

\* C16: a keymap resolution that fails inside should_render is not
\* propagated: the backend (active panel, arena, name map, every keyboard
\* state) and everything routed or queued are as before, and the call goes
\* on to the loop condition; when that finds the flag clear the call falls
\* through to the active panel and returns, the flag having stayed clear;
\* only the notifier sets the flag, every observation of a set flag clears
\* it and is followed by exactly one resolution, and nothing else resolves
C16_Step ==
    /\ ResolveFailed =>
          /\ backend' = backend
          /\ ~aborted'
          /\ pc' = "loop"
          /\ sr'.resolved = sr.resolved + 1
          /\ sr'.swapped = sr.swapped
          /\ sw' = sw
          /\ tasks' = tasks
          /\ hid_modifiers' = hid_modifiers
          /\ KEYMAP_CHANGE' = KEYMAP_CHANGE
    /\ (pc = "loop" /\ last'.op = "poll" /\ ~KEYMAP_CHANGE) =>
          /\ pc' = "idle"
          /\ backend' = backend
          /\ ~aborted'
          /\ ~KEYMAP_CHANGE'
          /\ sr' = sr
    /\ (~KEYMAP_CHANGE /\ KEYMAP_CHANGE') => last'.op = "notify"
    /\ (pc # "body" /\ pc' = "body") =>
          /\ last'.op = "poll"
          /\ KEYMAP_CHANGE
          /\ ~KEYMAP_CHANGE'
          /\ sr'.resolved = IF pc = "idle" THEN 0 ELSE sr.resolved
    /\ pc = "body" =>
          \/ last'.op = "notify" /\ pc' = "body" /\ sr'.resolved = sr.resolved
          \/ last'.op = "body" /\ sr'.resolved = sr.resolved + 1
                /\ (pc' # "body" \/ aborted')
    /\ (pc = "loop" /\ pc' = "loop") => sr'.resolved = sr.resolved

C16_ResolveFailureIsAbsorbed == [][C16_Step]_vars

\* C16 witness: a should_render call whose only resolution failed (no
\* switch_keymap call was ever made) found the flag clear afterwards and
\* returned through the active panel
C16_Witness ==
    /\ last.op = "poll"
    /\ ~last.ret
    /\ pc = "idle"
    /\ ~sw.called
    /\ sr.resolved = 1
    /\ sr.swapped = 0
    /\ ~KEYMAP_CHANGE
    /\ ~aborted

\* ---- an ordinary key off the swipe path
NonSwipeKey(k) ==
    button_state(k) = "Key" /\ ~(KB.swipe_engine /\ key_cap_type(k) = "Letter")

\* the modifier a touch with the given pointer button asserts
AssertedBy(button) ==
    CASE button = "Right" -> SHIFT
      [] button = "Middle" -> KB.alt_modifier
      [] OTHER -> {}

\* C17: an ordinary Key off the swipe path: the touch-down adds SHIFT to the
\* held mask for the secondary button, the alternate modifier for the middle
\* button and nothing for the primary button, then routes the mask and after
\* it the key-down; the touch-up routes the key-up and after it the updated
\* mask; both leave the bits outside {SHIFT, CTRL, ALT, SUPER, META} as they
\* were, and the touch-up that follows the touch-down leaves no bit the
\* pointer button asserted
C17_Step ==
    \A k \in Keys :
        /\ (StepIs("press", k) /\ NonSwipeKey(k)) =>
              /\ last'.button \in MouseButtons
              /\ KB'.modifiers = KB.modifiers \cup AssertedBy(last'.button)
              /\ routed' = << ModEv(KB'.modifiers), KeyEv(key_vk(k), TRUE) >>
              /\ KB'.modifiers \ AutoReleaseBits = KB.modifiers \ AutoReleaseBits
        /\ (StepIs("release", k) /\ NonSwipeKey(k)) =>
              /\ routed' = << KeyEv(key_vk(k), FALSE), ModEv(KB'.modifiers) >>
              /\ KB'.modifiers \subseteq KB.modifiers
              /\ KB'.modifiers \ AutoReleaseBits = KB.modifiers \ AutoReleaseBits
              /\ (last.op = "press" /\ last.key = k) =>
                    KB'.modifiers \cap AssertedBy(last.button) = {}

C17_PlainKeyPressRelease == [][C17_Step]_vars

\* C17 witness: on a keyboard without swipe engine whose alternate modifier
\* is ALT, a letter key was touched down with the middle button while
\* NUM_LOCK was held: the mask NUM_LOCK + ALT was routed, then the key-down
C17_Witness ==
    /\ last.op = "press"
    /\ last.key = "kH"
    /\ last.button = "Middle"
    /\ ~KB.swipe_engine
    /\ Active.keys.sticky["kNum"]
    /\ routed = << ModEv(NUM_LOCK \cup ALT), KeyEv("VK_H", TRUE) >>
    /\ KB.modifiers = NUM_LOCK \cup ALT

\* ---- the paste gesture of a swipe commit
\* C18: the touch-up that commits a predicted word writes the clipboard and
\* then routes exactly SHIFT as the modifier state, the Insert key-down, the
\* Insert key-up and the held mask as it was before the touch-up, and leaves
\* the held mask as it was; when the clipboard write fails, the touch-up has
\* routed nothing
C18_Step ==
    \A k \in LetterKeys :
        (StepIs("release", k) /\ Commits(k) /\ predict_log'[1].answer # <<>>) =>
            IF aborted'
            THEN /\ routed' = <<>>
                 /\ hid_modifiers' = hid_modifiers
            ELSE /\ clipboard' = Some(predict_log'[1].answer[1] \o <<" ">>)
                 /\ routed' = << ModEv(SHIFT), KeyEv("Insert", TRUE),
                                 KeyEv("Insert", FALSE), ModEv(KB.modifiers) >>
                 /\ KB'.modifiers = KB.modifiers
                 /\ hid_modifiers' = KB.modifiers

C18_CommitPastes == [][C18_Step]_vars

\* C18 witness: a swipe was committed while SHIFT was held: the clipboard
\* holds the word, the four events were routed and SHIFT is still held
C18_Witness ==
    /\ last.op = "release"
    /\ last.key = "kE"
    /\ ~aborted
    /\ Len(predict_log) = 1
    /\ clipboard = Some(Word1 \o <<" ">>)
    /\ routed = << ModEv(SHIFT), KeyEv("Insert", TRUE), KeyEv("Insert", FALSE),
                   ModEv(SHIFT) >>
    /\ KB.modifiers = SHIFT
    /\ KB.last_swiped_word = Some(Word1)

\* ---- the routed modifier state
\* C19: between handlers, the modifier state last routed to the HID is the
\* held mask of the active panel, after key events of every kind, swipe
\* commits, pause, resume and hot-swaps
C19_RoutedMaskIsHeldMask == hid_modifiers = KB.modifiers

\* C19 witness: SHIFT was held when a hot-swap activated a newly built
\* panel: the entering panel holds SHIFT, which is what the HID was last told
C19_Witness ==
    /\ last.op = "body"
    /\ last.key = "switch"
    /\ sw.ret
    /\ sw.built
    /\ backend.active_layout = 2
    /\ KB.modifiers = SHIFT
    /\ hid_modifiers = SHIFT

\* ---- an empty candidate list
\* C20: the swipe touch-up whose prediction answers an empty candidate list
\* completes without aborting, writes no clipboard, routes nothing and
\* leaves the last predicted word as it was
C20_Step ==
    \A k \in LetterKeys :
        (StepIs("release", k) /\ Commits(k) /\ predict_log'[1].answer = <<>>) =>
            /\ ~aborted'
            /\ clipboard' = clipboard
            /\ routed' = <<>>
            /\ KB'.last_swiped_word = KB.last_swiped_word

C20_EmptyPredictionIsHarmless == [][C20_Step]_vars

\* ---- the path given to the prediction
\* C21: whenever the prediction is called during a touch, the path it is
\* given is the lowercased label of the key the touch went down on followed
\* by the lowercased labels of the letter keys entered since, in order, and
\* holds no letter accumulated before that touch-down
C21_Step ==
    (track.down # "none" /\ last'.op = "release" /\ predict_log' # <<>>) =>
        predict_log'[1].path = LowerLabels(<< track.down >> \o track.entered)

C21_PathIsCurrentTouch == [][C21_Step]_vars

\* ---- the pressed flag and the routed key events
\* every key-down of vk in the events is followed by a key-up of vk
Balanced(events, vk) ==
    \A i \in 1..Len(events) :
        events[i] = KeyEv(vk, TRUE) =>
            \E j \in (i + 1)..Len(events) : events[j] = KeyEv(vk, FALSE)

\* C22: the touch-up on the ordinary Key the touch went down on, on the tap
\* path as on the non-swipe path, leaves the key's pressed flag false, and
\* the key events the touch-down and the touch-up routed for its virtual key
\* are balanced
C22_Step ==
    \A k \in KeyKeys :
        (track.down = k /\ StepIs("release", k) /\ ~aborted') =>
            /\ ~Active'.keys.pressed[k]
            /\ (last.op = "press" /\ last.key = k) =>
                  Balanced(routed \o routed', key_vk(k))

C22_PressedClearedAndBalanced == [][C22_Step]_vars

====
